---- MODULE Spec2Model ----
(***************************************************************************)
(* Model of src/model_train.py: the Trainer class (split, fit, persist,    *)
(* score, prediction table) and the __main__ loop over ensemble sizes.     *)
(*                                                                         *)
(* Python strings are sequences of one-character strings, so that          *)
(* rm_space, str() and the file-name formats are computed character by     *)
(* character.  A dict is a sequence of <<key, value>> pairs in insertion   *)
(* order.  A DataFrame is [columns, index, data] with data[j] the values   *)
(* of column j by position; a Series is [index, values].                   *)
(***************************************************************************)
EXTENDS Integers, Sequences, FiniteSets, TLC

(* ------------------------------ bounds -------------------------------- *)
\* rows of the labelled training data handed to Trainer
NumRows == 11
\* the shuffles train_test_split may produce are rotations by 0..MaxShift
MaxShift == 2
\* the fitted regressors' behaviour is one of 0..MaxBehaviour
MaxBehaviour == 3
\* predictions range over -1 .. PredSpan-2
PredSpan == 4
\* SalePrice values are 1 + ((label + seed) % PriceSpan), seed in 0..MaxPriceSeed
MaxPriceSeed == 1
PriceSpan == 3
\* benchmark calls made on one Trainer in SpecTrainer
MaxCalls == 2

(* ------------------------- program constants -------------------------- *)
SEED == 1
ArangeStart == 100
ArangeStop == 550
ArangeStep == 50
\* validation_ratio=0.1 (as a fraction RatioNum / RatioDen)
RatioNum == 1
RatioDen == 10

(* ------------------------------ strings ------------------------------- *)
BoostedRegressionTree == <<"B", "o", "o", "s", "t", "e", "d", " ", "R", "e", "g", "r", "e", "s", "s", "i", "o", "n", " ", "T", "r", "e", "e">>
RandomForest == <<"R", "a", "n", "d", "o", "m", " ", "F", "o", "r", "e", "s", "t">>
XGBoost == <<"X", "G", "B", "o", "o", "s", "t">>
LassoRegression == <<"L", "a", "s", "s", "o", " ", "R", "e", "g", "r", "e", "s", "s", "i", "o", "n">>
RidgeRegression == <<"R", "i", "d", "g", "e", " ", "R", "e", "g", "r", "e", "s", "s", "i", "o", "n">>
SalePrice == <<"S", "a", "l", "e", "P", "r", "i", "c", "e">>
PricePredictPrefix == <<"p", "r", "i", "c", "e", "_", "p", "r", "e", "d", "i", "c", "t", "_">>
ErrorSuffix == <<"_", "e", "r", "r", "o", "r">>
PklSuffix == <<".", "p", "k", "l">>
EstValidationSuffix == <<"_", "e", "s", "t", "_", "v", "a", "l", "i", "d", "a", "t", "i", "o", "n", ".", "c", "s", "v">>
MetricsFile == <<"m", "e", "t", "r", "i", "c", "s", ".", "c", "s", "v">>
\* columns of the input data (data_all.csv): an identifier, two inputs, the target
Id == <<"I", "d">>
LotArea == <<"L", "o", "t", "A", "r", "e", "a">>
YearBuilt == <<"Y", "e", "a", "r", "B", "u", "i", "l", "t">>

UpperToLower == [A |-> "a", B |-> "b", C |-> "c", D |-> "d", E |-> "e", F |-> "f", G |-> "g", H |-> "h", I |-> "i", J |-> "j", K |-> "k", L |-> "l", M |-> "m", N |-> "n", O |-> "o", P |-> "p", Q |-> "q", R |-> "r", S |-> "s", T |-> "t", U |-> "u", V |-> "v", W |-> "w", X |-> "x", Y |-> "y", Z |-> "z"]

\* str.lower() on one character
Lower(c) == IF c \in DOMAIN UpperToLower THEN UpperToLower[c] ELSE c

\* rm_space(s): s.replace(' ', '_').lower()
rm_space(s) == [i \in 1..Len(s) |-> Lower(IF s[i] = " " THEN "_" ELSE s[i])]

Digits == <<"0", "1", "2", "3", "4", "5", "6", "7", "8", "9">>

RECURSIVE Str(_)
\* str(n) / '{}'.format(n) of a non-negative integer: its decimal digits
Str(n) == IF n < 10 THEN <<Digits[n + 1]>>
          ELSE Str(n \div 10) \o <<Digits[(n % 10) + 1]>>

(* ------------------------------- dicts -------------------------------- *)
Keys(d) == [i \in 1..Len(d) |-> d[i][1]]
Values(d) == [i \in 1..Len(d) |-> d[i][2]]
KeySet(d) == {d[i][1] : i \in 1..Len(d)}
HasKey(d, k) == k \in KeySet(d)
Get(d, k) == d[CHOOSE i \in 1..Len(d) : d[i][1] = k][2]
\* d[k] = v: replaces the value of an existing key in place, else appends
Put(d, k, v) == IF HasKey(d, k)
                THEN [i \in 1..Len(d) |-> IF d[i][1] = k THEN <<k, v>> ELSE d[i]]
                ELSE Append(d, <<k, v>>)
\* dict(zip(names, values))
Zip(names, values) == [i \in 1..Len(names) |-> <<names[i], values[i]>>]
\* {**a, **b}
Merge(a, b) == a \o b

(* ----------------------------- DataFrames ----------------------------- *)
EmptyFrame == [columns |-> <<>>, index |-> <<>>, data |-> <<>>]
EmptySeries == [index |-> <<>>, values |-> <<>>]
ColSet(df) == {df.columns[j] : j \in 1..Len(df.columns)}
ColPos(df, c) == CHOOSE j \in 1..Len(df.columns) : df.columns[j] = c
\* df[cols] with a list of column names
Select(df, cols) == [columns |-> cols, index |-> df.index,
                     data |-> [j \in 1..Len(cols) |-> df.data[ColPos(df, cols[j])]]]
\* df[c] with one column name
Column(df, c) == [index |-> df.index, values |-> df.data[ColPos(df, c)]]
\* df.drop(c, axis='columns')
Drop(df, c) ==
  LET keep == SelectSeq([j \in 1..Len(df.columns) |-> j], LAMBDA j : df.columns[j] # c)
  IN [columns |-> [k \in 1..Len(keep) |-> df.columns[keep[k]]], index |-> df.index,
      data |-> [k \in 1..Len(keep) |-> df.data[keep[k]]]]
\* the rows at the given positions, in that order
TakeRows(df, pos) == [columns |-> df.columns,
                      index |-> [i \in 1..Len(pos) |-> df.index[pos[i]]],
                      data |-> [j \in 1..Len(df.columns) |->
                                  [i \in 1..Len(pos) |-> df.data[j][pos[i]]]]]
TakeSeries(s, pos) == [index |-> [i \in 1..Len(pos) |-> s.index[pos[i]]],
                       values |-> [i \in 1..Len(pos) |-> s.values[pos[i]]]]
\* df[c] = <array>: by position; an existing column is overwritten in place
SetColumn(df, c, arr) ==
  IF c \in ColSet(df)
  THEN [df EXCEPT !.data = [j \in 1..Len(df.columns) |->
                              IF df.columns[j] = c THEN arr ELSE df.data[j]]]
  ELSE [df EXCEPT !.columns = Append(df.columns, c), !.data = Append(df.data, arr)]
\* df[c] = <Series>: aligned on the index labels
SetColumnSeries(df, c, s) ==
  SetColumn(df, c, [i \in 1..Len(df.index) |->
                      s.values[CHOOSE p \in 1..Len(s.index) : s.index[p] = df.index[i]]])
\* the subtraction with its operands exchanged
SeriesMinusArray(arr, s) == [index |-> s.index,
                             values |-> [i \in 1..Len(s.values) |-> s.values[i] - arr[i]]]
\* <array> - <Series>: by position, carrying the Series' index
ArrayMinusSeries(arr, s) == [index |-> s.index,
                             values |-> [i \in 1..Len(s.values) |-> arr[i] - s.values[i]]]

(* ------------------------------- state -------------------------------- *)
VARIABLES
  pc,            \* position of the program
  failure,       \* the uncaught exception in flight: "none" or where it was raised
  train,         \* the labelled rows of data_all.csv
  dp_features,   \* preprocess.features of the loaded DataPrep artifact
  shift,         \* the shuffle train_test_split draws for random_state=SEED
  behaviour,     \* which functions the fitted regressors compute
  n_pos,         \* position of the __main__ loop in np.arange(100, 550, step=50)
  error_df,      \* __main__'s aggregate error table (a sequence of rows)
  res_dir,       \* csv files written so far: dict file name -> content
  model_dir,     \* predictor files written so far: dict file name -> Predictor
  dump_log,      \* the (name, predictor_file) pairs printed by dump_predictor
  n_estimator, features, X_train, y_train, X_valid, y_valid,
  lin_models, models, predictions,   \* the fields (and one local) of the Trainer
  pred_file,     \* benchmark's argument
  errors,        \* benchmark's local dict
  m_pos,         \* position of benchmark's loop in self.models.items()
  ret,           \* the error table benchmark returned
  calls          \* benchmark calls made on the current Trainer

inputs == <<train, dp_features, shift, behaviour>>
trainer == <<n_estimator, features, X_train, y_train, X_valid, y_valid,
             lin_models, models, predictions>>
disk == <<res_dir, model_dir, dump_log>>
vars == <<pc, failure, inputs, n_pos, error_df, disk, trainer, pred_file,
          errors, m_pos, ret, calls>>

(* ------------------------------ inputs -------------------------------- *)
TrainColumns == <<Id, LotArea, YearBuilt, SalePrice>>
\* the feature-selection lists the upstream step may have produced
FeatureLists == {<<LotArea>>, <<LotArea, YearBuilt>>, <<YearBuilt, LotArea>>}

\* the table of labelled rows: labels 1..NumRows, SalePrice never null
TrainTable(seed) ==
  [columns |-> TrainColumns,
   index |-> [i \in 1..NumRows |-> i],
   data |-> [j \in 1..Len(TrainColumns) |->
               [i \in 1..NumRows |->
                  IF TrainColumns[j] = SalePrice THEN 1 + ((i + seed) % PriceSpan)
                  ELSE IF TrainColumns[j] = Id THEN i
                  ELSE (i * j) % 3]]]

(* --------------------------- library calls ---------------------------- *)
\* np.arange(start, stop, step)
Arange(start, stop, step) ==
  [i \in 1..((stop - start + step - 1) \div step) |-> start + (i - 1) * step]

\* train_test_split(X, y, test_size=ratio, random_state=SEED): the rows are
\* shuffled (here: rotated by sh), the first ceil(ratio * n) positions are the
\* validation part and the rest the training part
SplitPositions(n, sh) ==
  LET perm == [i \in 1..n |-> ((i - 1 + sh) % n) + 1]
      n_test == (n * RatioNum + RatioDen - 1) \div RatioDen
  IN [test |-> SubSeq(perm, 1, n_test), train |-> SubSeq(perm, n_test + 1, n)]

Regressor(cls, kwargs) == [cls |-> cls, kwargs |-> kwargs, fit_columns |-> <<>>, fitted |-> FALSE]

\* model.fit(X, y): the regressor remembers the columns it was fit on
FitRegressor(reg, X, y) == [reg EXCEPT !.fit_columns = X.columns, !.fitted = TRUE]

ClsCode(cls) == CASE cls = "GradientBoostingRegressor" -> 1
                  [] cls = "RandomForestRegressor" -> 2
                  [] cls = "XGBRegressor" -> 3
                  [] cls = "Lasso" -> 4
                  [] cls = "Ridge" -> 5

RECURSIVE RowSum(_, _, _)
RowSum(X, i, j) == IF j = 0 THEN 0 ELSE X.data[j][i] + RowSum(X, i, j - 1)

\* model.predict(X): one value per row of X, a function of the regressor's
\* class and hyperparameters and of the row; values in -1 .. PredSpan-2
PredictArray(reg, X, b) ==
  LET n == IF HasKey(reg.kwargs, "n_estimators") THEN Get(reg.kwargs, "n_estimators") ELSE 0
  IN [i \in 1..Len(X.index) |->
        ((b + ClsCode(reg.cls) + (n \div 10) + RowSum(X, i, Len(X.columns))) % PredSpan) - 1]

\* metrics.mean_squared_log_error raises ValueError when a target or a
\* prediction is negative
MetricRaisesValueError(y_true, y_pred) ==
  \/ \E i \in 1..Len(y_true.values) : y_true.values[i] < 0
  \/ \E i \in 1..Len(y_pred) : y_pred[i] < 0

NaN == [nan |-> TRUE, of |-> <<>>]
\* the value of the metric, kept symbolic in its two arguments
MeanSquaredLogError(y_true, y_pred) == [nan |-> FALSE, of |-> <<y_true.values, y_pred>>]

\* Predictor(model, features) of src/predict.py
Predictor(model, feats) == [model |-> model, features |-> feats]

\* DataFrame.to_csv(file, index=False): the columns and the values, no index
ToCsv(df) == [columns |-> df.columns, data |-> df.data]

(* ---------------------- functions of the module ----------------------- *)
\* set_linear_models()
set_linear_models ==
  LET ridge_reg == Regressor("Ridge", <<<<"random_state", SEED>>>>)
      lasso_reg == Regressor("Lasso", <<<<"random_state", SEED>>>>)
  IN Zip(<<LassoRegression, RidgeRegression>>, <<lasso_reg, ridge_reg>>)

\* set_tree_models(n_estimators)
set_tree_models(n) ==
  LET gb_reg == Regressor("GradientBoostingRegressor",
                          <<<<"random_state", SEED>>, <<"n_estimators", n>>>>)
      rf_reg == Regressor("RandomForestRegressor",
                          <<<<"random_state", SEED>>, <<"n_estimators", n>>>>)
      xgb_reg == Regressor("XGBRegressor", <<<<"n_estimators", n>>>>)
  IN Zip(<<BoostedRegressionTree, RandomForest, XGBoost>>, <<gb_reg, rf_reg, xgb_reg>>)

\* the commented-out line 46: the linear candidates joined in
ActiveModels_Joined(lin, tree) == Merge(lin, tree)
\* Trainer.__init__, line 45: the active candidate set
ActiveModels(lin, tree) == tree

\* a file name without the ensemble size
DumpFileName_NoSize(name, n) == rm_space(name) \o PklSuffix
\* Trainer.dump_predictor: the file name
DumpFileName(name, n) == rm_space(name) \o Str(n) \o PklSuffix

\* Trainer.dump_predictor: the object persisted
DumpedPredictor(model, feats) == Predictor(model, feats)

\* __main__, line 160: the prediction file of one ensemble size
PredFileName(n) == Str(n) \o EstValidationSuffix

RECURSIVE AddPredictionColumns(_, _, _, _)
\* Trainer.retrieve_predictions, lines 88-90, for the model names from position k on
AddPredictionColumns(df, names, preds, k) ==
  IF k > Len(names) \/ ~HasKey(preds, names[k]) THEN df
  ELSE LET model == names[k]
           with_pred == SetColumn(df, PricePredictPrefix \o model, Get(preds, model))
           residual == ArrayMinusSeries(Get(preds, model), Column(with_pred, SalePrice))
       IN AddPredictionColumns(
            SetColumnSeries(with_pred, rm_space(model) \o ErrorSuffix, residual),
            names, preds, k + 1)

\* Trainer.retrieve_predictions: predict_df is self.X_valid itself, so the
\* result is also the new value of self.X_valid
retrieve_predictions(Xv, yv, mods, preds) ==
  AddPredictionColumns(SetColumnSeries(Xv, SalePrice, yv), Keys(mods), preds, 1)

\* Trainer.benchmark, lines 55-56: the error table
ErrorTable(errs, n) ==
  [i \in 1..Len(errs) |-> [model |-> Keys(errs)[i],
                           mean_squared_log_error |-> Values(errs)[i],
                           n_estimator |-> n]]

(* ------------------------------- Init --------------------------------- *)
Sizes == Arange(ArangeStart, ArangeStop, ArangeStep)

Init ==
  /\ pc = "load"
  /\ failure = "none"
  /\ \E seed \in 0..MaxPriceSeed : train = TrainTable(seed)
  /\ dp_features \in FeatureLists
  /\ shift \in 0..MaxShift
  /\ behaviour \in 0..MaxBehaviour
  /\ n_pos = 1
  /\ error_df = <<>>
  /\ res_dir = <<>>
  /\ model_dir = <<>>
  /\ dump_log = <<>>
  /\ n_estimator = 0
  /\ features = <<>>
  /\ X_train = EmptyFrame
  /\ y_train = EmptySeries
  /\ X_valid = EmptyFrame
  /\ y_valid = EmptySeries
  /\ lin_models = <<>>
  /\ models = <<>>
  /\ predictions = <<>>
  /\ pred_file = <<>>
  /\ errors = <<>>
  /\ m_pos = 1
  /\ ret = <<>>
  /\ calls = 0

(* ------------------------------ __main__ ------------------------------ *)
\* lines 144-153: the input file and the DataPrep artifact are read
LoadData ==
  /\ pc = "load"
  /\ pc' = "loop"
  /\ UNCHANGED <<failure, inputs, n_pos, error_df, disk, trainer, pred_file,
                 errors, m_pos, ret, calls>>

\* the inputs with the target column left in
InputColumns_TargetKept(compact_train) == compact_train
\* Trainer.__init__, line 30: X, the inputs without the target column
InputColumns(compact_train) == Drop(compact_train, SalePrice)

\* Trainer.__init__(train, validation_ratio, preprocess, n_estimators=n)
Construct(n) ==
  LET cols == dp_features \o <<SalePrice>>
      compact_train == Select(train, cols)
      X == InputColumns(compact_train)
      y == Column(compact_train, SalePrice)
      split == SplitPositions(Len(X.index), shift)
  IN /\ n_estimator' = n
     /\ features' = dp_features
     /\ X_train' = TakeRows(X, split.train)
     /\ y_train' = TakeSeries(y, split.train)
     /\ X_valid' = TakeRows(X, split.test)
     /\ y_valid' = TakeSeries(y, split.test)
     /\ lin_models' = set_linear_models
     /\ models' = ActiveModels(set_linear_models, set_tree_models(n))
     /\ predictions' = <<>>

\* lines 154-160: the next ensemble size, its Trainer and its prediction file
MainConstruct ==
  /\ pc = "loop"
  /\ n_pos <= Len(Sizes)
  /\ Construct(Sizes[n_pos])
  /\ pred_file' = PredFileName(Sizes[n_pos])
  /\ calls' = 0
  /\ pc' = "call"
  /\ UNCHANGED <<failure, inputs, n_pos, error_df, disk, errors, m_pos, ret>>

\* the aggregate replaced by the last returned table
ConcatErrors_Overwrite(agg, returned) == returned
\* line 161: error_df = pd.concat([error_df, <what benchmark returned>])
ConcatErrors(agg, returned) == agg \o returned

MainConcat ==
  /\ pc = "returned"
  /\ error_df' = ConcatErrors(error_df, ret)
  /\ n_pos' = n_pos + 1
  /\ pc' = "loop"
  /\ UNCHANGED <<failure, inputs, disk, trainer, pred_file, errors, m_pos, ret, calls>>

\* lines 163-165: after the loop, the aggregate table is written
WriteMetrics ==
  /\ pc = "loop"
  /\ n_pos > Len(Sizes)
  /\ res_dir' = Put(res_dir, MetricsFile, error_df)
  /\ pc' = "done"
  /\ UNCHANGED <<failure, inputs, n_pos, error_df, model_dir, dump_log, trainer,
                 pred_file, errors, m_pos, ret, calls>>

(* ------------------------------ Trainer ------------------------------- *)
\* benchmark, line 51: errors = dict(), and the loop over self.models starts
CallBenchmark ==
  /\ pc = "call"
  /\ errors' = <<>>
  /\ m_pos' = 1
  /\ calls' = calls + 1
  /\ pc' = IF Len(models) = 0 THEN "tables" ELSE "fit"
  /\ UNCHANGED <<failure, inputs, n_pos, error_df, disk, trainer, pred_file, ret>>

\* eval, line 66: model.fit(self.X_train, self.y_train)
Fit ==
  /\ pc = "fit"
  /\ models' = [models EXCEPT ![m_pos][2] = FitRegressor(@, X_train, y_train)]
  /\ pc' = "dump"
  /\ UNCHANGED <<failure, inputs, n_pos, error_df, disk, n_estimator, features,
                 X_train, y_train, X_valid, y_valid, lin_models, predictions,
                 pred_file, errors, m_pos, ret, calls>>

\* eval, line 67: self.dump_predictor(model, name)
DumpPredictor ==
  LET name == models[m_pos][1]
      fname == DumpFileName(name, n_estimator)
  IN /\ pc = "dump"
     /\ model_dir' = Put(model_dir, fname,
                         DumpedPredictor(models[m_pos][2], features))
     /\ dump_log' = Append(dump_log, <<name, fname>>)
     /\ pc' = "predict"
     /\ UNCHANGED <<failure, inputs, n_pos, error_df, res_dir, trainer, pred_file,
                    errors, m_pos, ret, calls>>

\* eval, lines 69-70: y_pred = model.predict(self.X_valid), kept in self.predictions
Predict ==
  /\ pc = "predict"
  /\ predictions' = Put(predictions, models[m_pos][1],
                        PredictArray(models[m_pos][2], X_valid, behaviour))
  /\ pc' = "metric"
  /\ UNCHANGED <<failure, inputs, n_pos, error_df, disk, n_estimator, features,
                 X_train, y_train, X_valid, y_valid, lin_models, models,
                 pred_file, errors, m_pos, ret, calls>>

\* eval without the except clause: the ValueError ends the program
Metric_ValueErrorUncaught ==
  LET name == models[m_pos][1]
      y_pred == Get(predictions, name)
  IN /\ pc = "metric"
     /\ IF MetricRaisesValueError(y_valid, y_pred)
        THEN /\ failure' = "metric"
             /\ pc' = "aborted"
             /\ UNCHANGED <<errors, m_pos>>
        ELSE /\ errors' = Put(errors, name, MeanSquaredLogError(y_valid, y_pred))
             /\ m_pos' = m_pos + 1
             /\ pc' = IF m_pos < Len(models) THEN "fit" ELSE "tables"
             /\ failure' = failure
     /\ UNCHANGED <<inputs, n_pos, error_df, disk, trainer, pred_file, ret, calls>>

\* benchmark leaving its loop at the first candidate with an undefined metric
Metric_BreaksOnNaN ==
  LET name == models[m_pos][1]
      y_pred == Get(predictions, name)
      undefined == MetricRaisesValueError(y_valid, y_pred)
  IN /\ pc = "metric"
     /\ errors' = Put(errors, name,
                      IF undefined THEN NaN ELSE MeanSquaredLogError(y_valid, y_pred))
     /\ m_pos' = m_pos + 1
     /\ pc' = IF m_pos < Len(models) /\ ~undefined THEN "fit" ELSE "tables"
     /\ UNCHANGED <<failure, inputs, n_pos, error_df, disk, trainer, pred_file,
                    ret, calls>>

\* eval, lines 72-76, and benchmark, line 53: the metric or NaN goes into
\* errors[name], and the loop moves to the next candidate
Metric ==
  LET name == models[m_pos][1]
      y_pred == Get(predictions, name)
  IN /\ pc = "metric"
     /\ errors' = Put(errors, name,
                      IF MetricRaisesValueError(y_valid, y_pred) THEN NaN
                      ELSE MeanSquaredLogError(y_valid, y_pred))
     /\ m_pos' = m_pos + 1
     /\ pc' = IF m_pos < Len(models) THEN "fit" ELSE "tables"
     /\ UNCHANGED <<failure, inputs, n_pos, error_df, disk, trainer, pred_file,
                    ret, calls>>

\* benchmark, lines 55-62: the error table, the prediction table (which is
\* self.X_valid, changed in place), its csv file, and the return.  A candidate
\* without an entry in self.predictions raises KeyError in line 89.
FinishBenchmark ==
  LET predict_df == retrieve_predictions(X_valid, y_valid, models, predictions)
      complete == \A i \in 1..Len(models) : HasKey(predictions, models[i][1])
  IN /\ pc = "tables"
     /\ X_valid' = predict_df
     /\ IF complete
        THEN /\ res_dir' = Put(res_dir, pred_file, ToCsv(predict_df))
             /\ ret' = ErrorTable(errors, n_estimator)
             /\ pc' = "returned"
             /\ failure' = failure
        ELSE /\ failure' = "KeyError"
             /\ pc' = "aborted"
             /\ UNCHANGED <<res_dir, ret>>
     /\ UNCHANGED <<inputs, n_pos, error_df, model_dir, dump_log, n_estimator,
                    features, X_train, y_train, y_valid, lin_models, models,
                    predictions, pred_file, errors, m_pos, calls>>

\* a caller that keeps the Trainer calls benchmark on it again
BenchmarkAgain ==
  /\ pc = "returned"
  /\ calls < MaxCalls
  /\ pc' = "call"
  /\ UNCHANGED <<failure, inputs, n_pos, error_df, disk, trainer, pred_file,
                 errors, m_pos, ret, calls>>

\* a caller that builds a Trainer of some ensemble size
ClientConstruct ==
  /\ pc = "loop"
  /\ \E k \in 1..2 : /\ Construct(Sizes[k])
                     /\ pred_file' = PredFileName(Sizes[k])
  /\ calls' = 0
  /\ pc' = "call"
  /\ UNCHANGED <<failure, inputs, n_pos, error_df, disk, errors, m_pos, ret>>

(* ------------------------------ failures ------------------------------ *)
\* the places where a library call can raise an exception that nothing catches:
\* reading the inputs, Trainer() or the metrics to_csv, fit, dump, predict,
\* and the prediction file's to_csv
FailPoints == {"load", "loop", "fit", "dump", "predict", "tables"}

\* an exception that is recorded and then ignored: the step is tried again
Fail_Swallowed ==
  /\ pc \in FailPoints
  /\ failure' = pc
  /\ UNCHANGED <<pc, inputs, n_pos, error_df, disk, trainer, pred_file, errors,
                 m_pos, ret, calls>>

\* an uncaught exception ends the program
Fail ==
  /\ pc \in FailPoints
  /\ failure' = pc
  /\ pc' = "aborted"
  /\ UNCHANGED <<inputs, n_pos, error_df, disk, trainer, pred_file, errors,
                 m_pos, ret, calls>>

Next ==
  \/ LoadData
  \/ MainConstruct
  \/ CallBenchmark
  \/ Fit
  \/ DumpPredictor
  \/ Predict
  \/ Metric
  \/ FinishBenchmark
  \/ MainConcat
  \/ WriteMetrics
  \/ Fail

Spec == Init /\ [][Next]_vars

NextTrainer ==
  \/ LoadData
  \/ ClientConstruct
  \/ CallBenchmark
  \/ Fit
  \/ DumpPredictor
  \/ Predict
  \/ Metric
  \/ FinishBenchmark
  \/ BenchmarkAgain
  \/ Fail

SpecTrainer == Init /\ [][NextTrainer]_vars

TypeOK ==
  /\ pc \in {"load", "loop", "call", "fit", "dump", "predict", "metric", "tables",
             "returned", "done", "aborted"}
  /\ n_pos \in 1..(Len(Sizes) + 1)
  /\ m_pos \in 1..(Len(models) + 1)

(* ------------------------------- claims ------------------------------- *)
TreeNames == {BoostedRegressionTree, RandomForest, XGBoost}
InBenchmark == pc \in {"fit", "dump", "predict", "metric", "tables"}
Undefined(name) == MetricRaisesValueError(y_valid, Get(predictions, name))

\* C1: when the metric of a candidate raises ValueError, the metric step does
\* not abort: it records NaN for that candidate and control goes on to the next
\* candidate or to the tables; and when benchmark has returned, the returned
\* table has a row for every candidate (NaN where the metric is undefined) and
\* the prediction table is in pred_file.
C1_Returned ==
  pc = "returned" =>
    /\ [i \in 1..Len(ret) |-> ret[i].model] = Keys(models)
    /\ \A i \in 1..Len(ret) :
         Undefined(ret[i].model) <=> ret[i].mean_squared_log_error = NaN
    /\ HasKey(res_dir, pred_file)

C1_MetricStep ==
  pc = "metric" =>
    LET name == models[m_pos][1]
    IN /\ pc' \in {"fit", "tables"}
       /\ failure' = "none"
       /\ HasKey(errors', name)
       /\ Undefined(name) => Get(errors', name) = NaN

C1_UndefinedMetricIsNaN == [](C1_Returned) /\ [][C1_MetricStep]_vars

\* a benchmark that returned with a NaN row followed by a row with a value
C1_Witness ==
  /\ pc = "returned"
  /\ \E i, j \in 1..Len(ret) :
       /\ i < j
       /\ ret[i].mean_squared_log_error = NaN
       /\ ret[j].mean_squared_log_error # NaN
  /\ HasKey(res_dir, pred_file)

\* C2: the error table benchmark returns has exactly one row per candidate of
\* the active set, the active set is the three tree-ensemble candidates, and
\* every row carries the Trainer's ensemble size.
C2_OneRowPerCandidate ==
  pc = "returned" =>
    /\ KeySet(models) = TreeNames
    /\ Len(ret) = Cardinality(TreeNames)
    /\ \A name \in TreeNames : Cardinality({i \in 1..Len(ret) : ret[i].model = name}) = 1
    /\ \A i \in 1..Len(ret) : ret[i].model \in TreeNames /\ ret[i].n_estimator = n_estimator

C2_Witness ==
  /\ pc = "returned"
  /\ n_estimator = ArangeStart + ArangeStep
  /\ Len(ret) = 3
  /\ ret[3].n_estimator = ArangeStart + ArangeStep

\* the SalePrice of the row of train with the given label
TruePrice(label) ==
  Column(train, SalePrice).values[CHOOSE p \in 1..Len(train.index) : train.index[p] = label]

\* C3: in the written prediction table, for every candidate and every
\* validation row, the residual column is the candidate's prediction for that
\* row minus the true SalePrice of that row.
C3_ResidualRowForRow ==
  pc = "returned" =>
    LET t == Get(res_dir, pred_file)
        col(c) == t.data[CHOOSE j \in 1..Len(t.columns) : t.columns[j] = c]
    IN \A k \in 1..Len(models) :
         LET name == models[k][1]
         IN /\ PricePredictPrefix \o name \in {t.columns[j] : j \in 1..Len(t.columns)}
            /\ rm_space(name) \o ErrorSuffix \in {t.columns[j] : j \in 1..Len(t.columns)}
            /\ \A i \in 1..Len(X_valid.index) :
                 /\ col(SalePrice)[i] = TruePrice(X_valid.index[i])
                 /\ col(PricePredictPrefix \o name)[i] = Get(predictions, name)[i]
                 /\ col(rm_space(name) \o ErrorSuffix)[i]
                      = Get(predictions, name)[i] - TruePrice(X_valid.index[i])

\* a written table with a positive and a negative residual
C3_Witness ==
  /\ pc = "returned"
  /\ HasKey(res_dir, pred_file)
  /\ LET t == Get(res_dir, pred_file)
         e == t.data[CHOOSE j \in 1..Len(t.columns) :
                       t.columns[j] = rm_space(XGBoost) \o ErrorSuffix]
     IN \E i, j \in 1..Len(e) : e[i] > 0 /\ e[j] < 0

\* C4: every persisted Predictor stores the columns of the training table its
\* model was fit on, which is the feature-selection list, without SalePrice.
C4_PersistedFeatures ==
  \A i \in 1..Len(model_dir) :
    LET p == model_dir[i][2]
    IN /\ p.model.fitted
       /\ p.features = p.model.fit_columns
       /\ p.features = X_train.columns
       /\ p.features = dp_features
       /\ \A j \in 1..Len(p.features) : p.features[j] # SalePrice

C4_Witness ==
  /\ Len(model_dir) >= 4
  /\ Len(model_dir[4][2].features) = 2

\* C5: in every eval, on the first and on any later benchmark call of a
\* Trainer, the columns of X_train and of X_valid are the same, and are the
\* feature-selection list.
C5_FitAndScoreColumns ==
  pc \in {"fit", "dump", "predict", "metric"} =>
    /\ X_train.columns = X_valid.columns
    /\ X_valid.columns = features

\* the rows of the table for one candidate and one ensemble size
RowsOf(t, name, n) == {i \in 1..Len(t) : t[i].model = name /\ t[i].n_estimator = n}

\* C6: the aggregate table holds exactly one row per (candidate, ensemble size)
\* for the sizes processed so far; when the loop is over these are all the
\* sizes of the loop, 100 and 150 among them, that is what the metrics file
\* holds, and the rows of one candidate for 100 and for 150 are two rows with
\* the same model name.
C6_AggregateRows ==
  /\ pc \in {"loop", "done"} =>
       /\ Len(error_df) = Cardinality(TreeNames) * (n_pos - 1)
       /\ \A name \in TreeNames : \A k \in 1..(n_pos - 1) :
            Cardinality(RowsOf(error_df, name, Sizes[k])) = 1
  /\ pc = "done" =>
       /\ n_pos - 1 = Len(Sizes)
       /\ \E a, b \in 1..Len(Sizes) : Sizes[a] = 100 /\ Sizes[b] = 150
       /\ Get(res_dir, MetricsFile) = error_df
       /\ \A name \in TreeNames :
            \E i \in RowsOf(error_df, name, 100) : \E j \in RowsOf(error_df, name, 150) :
              i # j /\ error_df[i] # error_df[j] /\ error_df[i].model = error_df[j].model

C6_Witness ==
  /\ pc = "done"
  /\ HasKey(res_dir, MetricsFile)
  /\ \E i, j \in 1..Len(error_df) :
       /\ error_df[i].model = error_df[j].model
       /\ error_df[i].n_estimator = 100 /\ error_df[j].n_estimator = 150
       /\ error_df[i].mean_squared_log_error # error_df[j].mean_squared_log_error

Seeded(reg) == HasKey(reg.kwargs, "random_state") /\ Get(reg.kwargs, "random_state") = SEED

\* C7: every regressor built by set_linear_models and set_tree_models is
\* constructed with random_state SEED.
C7_AllSeeded ==
  /\ \A i \in 1..Len(lin_models) : Seeded(lin_models[i][2])
  /\ \A i \in 1..Len(models) : Seeded(models[i][2])

\* C8: the predictor files of a run have pairwise different names, so no dump
\* overwrites a file of the run; the name is the model name lower-cased with
\* '_' for ' ', then the ensemble size, then '.pkl'.
C8_OwnFilePerPair ==
  /\ \A i, j \in 1..Len(dump_log) : i # j => dump_log[i][2] # dump_log[j][2]
  /\ Len(model_dir) = Len(dump_log)
  /\ \A i \in 1..Len(dump_log) : HasKey(model_dir, dump_log[i][2])
  /\ Len(dump_log) >= 1 =>
       dump_log[1][2] = <<"b", "o", "o", "s", "t", "e", "d", "_", "r", "e", "g", "r", "e",
                          "s", "s", "i", "o", "n", "_", "t", "r", "e", "e",
                          "1", "0", "0", ".", "p", "k", "l">>
  /\ Len(dump_log) >= 5 =>
       dump_log[5] = <<RandomForest, <<"r", "a", "n", "d", "o", "m", "_", "f", "o", "r", "e",
                                       "s", "t", "1", "5", "0", ".", "p", "k", "l">>>>

C8_Witness ==
  /\ pc = "done"
  /\ Len(model_dir) = 3 * Len(Sizes)

\* C9: once an exception other than the metric's ValueError has been raised the
\* program has aborted and takes no further step, and the metrics file is not
\* written; the metrics file is written only when the loop is over, with the
\* rows of every ensemble size, and is never written again.
C9_Failed == failure # "none" => pc = "aborted" /\ ~HasKey(res_dir, MetricsFile)

C9_Written ==
  HasKey(res_dir, MetricsFile) =>
    /\ pc = "done"
    /\ n_pos > Len(Sizes)
    /\ Len(Get(res_dir, MetricsFile)) = 3 * Len(Sizes)

C9_FailureAborts ==
  /\ [](C9_Failed /\ C9_Written)
  /\ [][failure = "none" /\ ~HasKey(res_dir, MetricsFile)]_vars

\* a run that had completed an ensemble size and then failed in a later fit
C9_Witness ==
  /\ failure = "fit"
  /\ pc = "aborted"
  /\ n_pos >= 2
  /\ m_pos = 2
  /\ Len(error_df) = 3 * (n_pos - 1)

\* C10: the prediction table is built and written when every candidate has
\* been fit, persisted and scored and has its entry in self.predictions, also
\* the candidates with a NaN error; the written table has a prediction and a
\* residual column per candidate; a candidate's predictor file exists before
\* its error is computed.
C10_TablesAfterAllCandidates ==
  /\ pc = "tables" =>
       \A i \in 1..Len(models) :
         /\ models[i][2].fitted
         /\ HasKey(predictions, models[i][1])
         /\ HasKey(errors, models[i][1])
         /\ HasKey(model_dir, DumpFileName(models[i][1], n_estimator))
  /\ (InBenchmark /\ calls = 1) => ~HasKey(res_dir, pred_file)
  /\ pc \in {"metric"} => HasKey(model_dir, DumpFileName(models[m_pos][1], n_estimator))
  /\ InBenchmark =>
       \A i \in 1..Len(errors) : HasKey(model_dir, DumpFileName(errors[i][1], n_estimator))
  /\ pc = "returned" =>
       LET t == Get(res_dir, pred_file)
       IN \A i \in 1..Len(models) :
            /\ \E j \in 1..Len(t.columns) : t.columns[j] = PricePredictPrefix \o models[i][1]
            /\ \E j \in 1..Len(t.columns) :
                 t.columns[j] = rm_space(models[i][1]) \o ErrorSuffix

\* a written table with columns for a candidate whose error is NaN
C10_Witness ==
  /\ pc = "returned"
  /\ Get(errors, RandomForest) = NaN
  /\ LET t == Get(res_dir, pred_file)
     IN \E j \in 1..Len(t.columns) : t.columns[j] = rm_space(RandomForest) \o ErrorSuffix
====
